---- MODULE Spec2Model ----
(***************************************************************************)
(* Model of sample_api.py: the image-URL rewrite (transform_image_url),    *)
(* the metadata normaliser (normalize_urls), the checkpoint file           *)
(* (load_checkpoint / save_checkpoint), the batch driver (process_batch),  *)
(* the supervising loop (start_updater) and the /status responder.         *)
(*                                                                         *)
(* A Python str is a sequence of one-character strings, so that            *)
(* str.replace, the `in` test, split and strip are computed character by   *)
(* character as Python computes them.                                      *)
(***************************************************************************)
EXTENDS Integers, Sequences, FiniteSets, TLC

\* ------------------------------------------------------------------------
\* Configuration (sample_api.py lines 15-32)
\* ------------------------------------------------------------------------
OLD_IMAGE_PATH == <<"/", "i", "m", "a", "g", "e", "s", "/">>
NEW_IMAGE_PATH == <<"/", "p", "i", "c", "t", "u", "r", "e", "s", "/">>
OLD_EXTENSION == <<".", "j", "p", "g">>
NEW_EXTENSION == <<".", "w", "e", "b", "p">>
\* the literal ".JPG" of line 52
UPPER_EXTENSION == <<".", "J", "P", "G">>
\* the literal "static.recar.lt" of line 49
HOST == <<"s", "t", "a", "t", "i", "c", ".", "r", "e", "c", "a", "r", ".", "l", "t">>

\* ------------------------------------------------------------------------
\* Python str primitives.  Python evaluates an argument before the call, so
\* each primitive binds its string argument to its value once (v \in {s})
\* and then scans that value.
\* ------------------------------------------------------------------------
\* s.startswith(p)
StartsWith(s, p) == Len(s) >= Len(p) /\ SubSeq(s, 1, Len(p)) = p

\* `sub in s`
RECURSIVE ContainsFrom(_, _)
ContainsFrom(s, sub) ==
  IF Len(s) < Len(sub) THEN FALSE
  ELSE IF StartsWith(s, sub) THEN TRUE
  ELSE ContainsFrom(Tail(s), sub)

Contains(s, sub) == \E v \in {s} : ContainsFrom(v, sub)

\* s.replace(old, new): every non-overlapping occurrence, scanning left to
\* right, the scan resuming after the replaced occurrence (old is non-empty).
RECURSIVE ReplaceFrom(_, _, _)
ReplaceFrom(s, old, new) ==
  IF Len(s) < Len(old) THEN s
  ELSE IF StartsWith(s, old)
       THEN new \o ReplaceFrom(SubSeq(s, Len(old) + 1, Len(s)), old, new)
       ELSE <<Head(s)>> \o ReplaceFrom(Tail(s), old, new)

Replace(s, old, new) ==
  CHOOSE r \in {ReplaceFrom(v, old, new) : v \in {s}} : TRUE

\* the characters str.strip() removes (those str.isspace() accepts): the
\* blank, tab, newline, carriage return, form feed, vertical tab, the
\* separators U+001C..U+001F, next line U+0085 and the no-break space
\* U+00A0, and the Ogham space mark U+1680.  The other Unicode spaces
\* (U+2000..U+200A, U+2028, U+2029, U+202F, U+205F, U+3000) cannot be
\* written in a module; they are no characters of the modelled alphabet.
Whitespace ==
  {" ", "\t", "\n", "\r", "\f", "", "", "", "", "", "", " ",
   " "}

\* s.lstrip(), s.rstrip(), s.strip()
RECURSIVE LStrip(_)
LStrip(s) ==
  IF s # <<>> /\ Head(s) \in Whitespace THEN LStrip(Tail(s)) ELSE s

RECURSIVE RStrip(_)
RStrip(s) ==
  IF s # <<>> /\ s[Len(s)] \in Whitespace
  THEN RStrip(SubSeq(s, 1, Len(s) - 1))
  ELSE s

Strip(s) ==
  CHOOSE r \in {LStrip(w) : w \in {RStrip(v) : v \in {s}}} : TRUE

\* s.split(","): the pieces between commas, empty pieces included
RECURSIVE SplitFrom(_, _)
SplitFrom(s, cur) ==
  IF s = <<>> THEN <<cur>>
  ELSE IF Head(s) = "," THEN <<cur>> \o SplitFrom(Tail(s), <<>>)
  ELSE SplitFrom(Tail(s), Append(cur, Head(s)))

Split(s) == CHOOSE r \in {SplitFrom(v, <<>>) : v \in {s}} : TRUE

\* [str(u).strip() for u in xs]
StripAll(xs) ==
  CHOOSE r \in {[i \in 1..Len(v) |-> Strip(v[i])] : v \in {xs}} : TRUE

\* [x for x in xs if x]  (the non-empty strings of xs, in order)
RECURSIVE NonEmptyFrom(_)
NonEmptyFrom(xs) ==
  IF xs = <<>> THEN <<>>
  ELSE IF Head(xs) = <<>> THEN NonEmptyFrom(Tail(xs))
  ELSE <<Head(xs)>> \o NonEmptyFrom(Tail(xs))

NonEmpty(xs) == CHOOSE r \in {NonEmptyFrom(v) : v \in {xs}} : TRUE

\* ------------------------------------------------------------------------
\* transform_image_url (lines 48-53)
\* ------------------------------------------------------------------------
\* a transformer without the host test of line 49
transform_image_url_NoHostTest(url) ==
  Replace(Replace(Replace(url, OLD_IMAGE_PATH, NEW_IMAGE_PATH),
                  OLD_EXTENSION, NEW_EXTENSION),
          UPPER_EXTENSION, NEW_EXTENSION)

transform_image_url(url) ==
  IF url = <<>> \/ ~Contains(url, HOST) THEN url
  ELSE LET withPath == Replace(url, OLD_IMAGE_PATH, NEW_IMAGE_PATH)
           withExt == Replace(withPath, OLD_EXTENSION, NEW_EXTENSION)
       IN Replace(withExt, UPPER_EXTENSION, NEW_EXTENSION)

\* ------------------------------------------------------------------------
\* normalize_urls (lines 55-65).  A raw metadata value is tagged by the
\* Python shape the code dispatches on:
\*   [t |-> "list", v |-> <<strings>>]  a list
\*   [t |-> "json", v |-> <<strings>>]  a str that json.loads parses to the
\*                                      list v
\*   [t |-> "scalar", v |-> <<>>]       a str that json.loads parses to
\*                                      something that is no list
\*   [t |-> "text", v |-> string]       a str that json.loads rejects
\*   [t |-> "nested", v |-> <<>>]       a str nested so deep that
\*                                      json.loads raises RecursionError
\*   [t |-> "digits", v |-> <<>>]       a str with a number so long that
\*                                      json.loads raises ValueError
\*                                      (neither is a JSONDecodeError, so
\*                                      line 63 does not catch it)
\*   [t |-> "other", v |-> <<>>]        None, a dict, a number
\* ------------------------------------------------------------------------
\* the call raises exception e instead of returning a value
Raises(e) == [raises |-> e]

normalize_urls(raw_value) ==
  CASE raw_value.t = "list" -> StripAll(raw_value.v)
    [] raw_value.t = "json" -> StripAll(raw_value.v)
    [] raw_value.t = "text" -> NonEmpty(StripAll(Split(raw_value.v)))
    [] raw_value.t = "nested" -> Raises("RecursionError")
    [] raw_value.t = "digits" -> Raises("ValueError")
    [] OTHER -> <<>>

\* ------------------------------------------------------------------------
\* Bounds of the model
\* ------------------------------------------------------------------------
\* END_PAGE (line 26, from the environment): the last page of the run
END_PAGE == 2
\* PER_PAGE (line 24, from the environment): items on a full page
PER_PAGE == 2
\* how many times process_batch may raise into start_updater
MaxRaises == 2
\* length, in tokens, of the URLs the transformer is applied to
MaxTokens == 4
\* how many times the process may be terminated and started anew
MaxKills == 1

\* START_PAGE (line 25, default)
START_PAGE == 1
\* None, the default of save_checkpoint's product_id (line 44) and JSON
\* null: item ids are positive, and line 106 tests the id's truthiness.
None == 0

Pages == START_PAGE..END_PAGE
Ids == 1..(END_PAGE * PER_PAGE)

\* ------------------------------------------------------------------------
\* The remote catalog (external): the pages of the collection and the
\* product_images_url metadata of each product
\* ------------------------------------------------------------------------
U_OLD == HOST \o OLD_IMAGE_PATH \o <<"1">> \o OLD_EXTENSION
U_NEW == HOST \o NEW_IMAGE_PATH \o <<"1">> \o NEW_EXTENSION
U_FOREIGN == <<"c", "d", "n">> \o OLD_IMAGE_PATH \o <<"2">> \o OLD_EXTENSION

\* the shapes of a product's product_images_url entry
MetaKinds ==
  << [t |-> "list", v |-> <<U_OLD>>],
     [t |-> "text",
      v |-> U_FOREIGN \o <<",", " ", "\t">> \o U_OLD \o <<"\r", "\n">>],
     [t |-> "list", v |-> <<U_NEW>>],
     [t |-> "absent", v |-> <<>>],
     [t |-> "other", v |-> <<>>] >>

\* the ids of page p when it is full: the collection listed in ascending
\* id order, or in descending id order (newest first, the later pages
\* holding the smaller ids)
PageIds(p, asc) ==
  [i \in 1..PER_PAGE |->
     IF asc THEN (p - START_PAGE) * PER_PAGE + i
     ELSE (END_PAGE - p) * PER_PAGE + (PER_PAGE + 1 - i)]

\* a catalog: every page full, but page e empty (e = 0: none empty)
MkCatalog(asc, e) ==
  [p \in Pages |-> IF p = e THEN <<>> ELSE PageIds(p, asc)]

MkMeta(shift) ==
  [id \in Ids |-> MetaKinds[((id + shift) % Len(MetaKinds)) + 1]]

\* ------------------------------------------------------------------------
\* State
\* ------------------------------------------------------------------------
VARIABLES
  catalog,            \* page -> the ids the API returns for it
  meta,               \* id -> the product_images_url entry on the server
  file,               \* the contents of checkpoint.json
  log,                \* the rows of the CSV log file LOG_FILE
  pc,                 \* where the updater thread is
  page,               \* the loop variable of line 81
  products,           \* response.json() of the current page
  idx,                \* position of the loop of line 104 in products
  checkpoint,         \* line 69: the dict load_checkpoint returned
  resume_page,        \* line 70
  resume_product_id,  \* line 71
  total_checked,      \* line 73
  total_updated,
  total_skipped,
  saving,             \* the arguments of the save_checkpoint call under way
  raises,             \* how often start_updater caught an exception
  http,               \* the last request made and how it ended
  puts,               \* PUT requests made in this run of process_batch
  fetched,            \* page -> GET requests made for it in this run
  seen,               \* id -> times the item passed the resume filter in
                      \* this run
  filtered,           \* the ids the resume filter skipped in this run
  lastSave,           \* the last checkpoint save_checkpoint wrote in this run
  processed,          \* ids whose handling ended in a skip or in a
                      \* successful update, in any run
  failed,             \* ids whose last update call failed
  statusResp,         \* the last answer of the /status responder
  kills,              \* how often the process was terminated and started anew
  lastDurable,        \* the file as the last completed save_checkpoint left it
  tIn, tOut, tStep    \* the transformer's input, output and applications

vars ==
  << catalog, meta, file, log, pc, page, products, idx, checkpoint,
     resume_page, resume_product_id, total_checked, total_updated, total_skipped, saving,
     raises, http, puts, fetched, seen, filtered, lastSave, processed, failed,
     statusResp, kills, lastDurable, tIn, tOut, tStep >>

catalogVars == << catalog >>
counterVars == << total_checked, total_updated, total_skipped >>
resumeVars == << checkpoint, resume_page, resume_product_id >>
transformVars == << tIn, tOut, tStep >>
driverVars ==
  << catalog, meta, file, log, pc, page, products, idx, checkpoint,
     resume_page, resume_product_id, total_checked, total_updated, total_skipped, saving,
     raises, http, puts, fetched, seen, filtered, lastSave, processed,
     failed, kills, lastDurable >>

\* ------------------------------------------------------------------------
\* checkpoint.json (lines 35-46)
\* ------------------------------------------------------------------------
\* the file does not exist
FileAbsent == [kind |-> "absent", last_page |-> 0, last_product_id |-> None]
\* open(CHECKPOINT_FILE, "w") has truncated it and nothing is written yet
FileEmpty == [kind |-> "empty", last_page |-> 0, last_product_id |-> None]
\* json.dump({"last_page": p, "last_product_id": x}, f) has completed
FileJson(p, x) == [kind |-> "json", last_page |-> p, last_product_id |-> x]

\* the file holds text that is no JSON (json.load raises JSONDecodeError)
FileNotJson == [kind |-> "notjson", last_page |-> 0, last_product_id |-> None]
\* the file holds bytes that are no UTF-8 (the read raises
\* UnicodeDecodeError, which line 40 does not catch)
FileNotUtf8 == [kind |-> "notutf8", last_page |-> 0, last_product_id |-> None]
\* the file holds JSON that is no object; text is the JSON text
NonObjectTexts == {"[]", "null", "7", "\"abc\""}
FileNonObject(text) == [kind |-> "nonobject", text |-> text]
\* the file holds {"last_page": "2", "last_product_id": 1}: an object whose
\* "last_page" is a string
FileBadObject ==
  [kind |-> "badobject", last_page |-> "2", last_product_id |-> 1]
\* the file holds {"last_page": null, "last_product_id": null}
FileNullObject ==
  [kind |-> "nullobject", last_page |-> None, last_product_id |-> None]
\* the file holds {"foo": 1}: an object without the keys of a checkpoint
FileOtherObject ==
  [kind |-> "otherobject", last_page |-> 0, last_product_id |-> None]

\* lines 36-40: reading or parsing the file raises an exception that
\* load_checkpoint lets through
LoadRaises(f) == f.kind = "notutf8"

\* line 39 returned a dict
LoadsDict(f) == f.kind \notin {"notutf8", "nonobject"}

\* lines 69-81: process_batch raises before its first fetch:
\* load_checkpoint raised (line 69), json.load returned a value without
\* .get (line 70, AttributeError), or "last_page" is no integer and
\* range(resume_page, ...) raises (line 81, TypeError)
StartRaises(f) ==
  \/ LoadRaises(f)
  \/ ~LoadsDict(f)
  \/ f.kind \in {"badobject", "nullobject"}

\* load_checkpoint: what json.load returned (line 39): a dict, as a
\* function from its keys, or a value that is no dict, named by its JSON
\* text; {} when the file is missing or json.load raises JSONDecodeError
load_checkpoint(f) ==
  CASE f.kind \in {"json", "badobject", "nullobject"} ->
         [k \in {"last_page", "last_product_id"} |-> f[k]]
    [] f.kind = "otherobject" -> [k \in {"foo"} |-> 1]
    [] f.kind = "nonobject" -> [json |-> f.text]
    [] f.kind = "notutf8" -> Raises("UnicodeDecodeError")
    [] OTHER -> [k \in {} |-> None]

\* dict.get(key, default)
Get(d, key, default) == IF key \in DOMAIN d THEN d[key] ELSE default

\* a driver that always starts at the configured start page
ResumePage_IgnoresCheckpoint(f) == START_PAGE

\* lines 69-71: the exception of line 69 passes through; a value that is
\* no dict has no .get
ResumePage(f) ==
  CASE LoadRaises(f) -> load_checkpoint(f)
    [] ~LoadsDict(f) -> Raises("AttributeError")
    [] OTHER -> Get(load_checkpoint(f), "last_page", START_PAGE)

ResumeProductId(f) ==
  CASE LoadRaises(f) -> load_checkpoint(f)
    [] ~LoadsDict(f) -> Raises("AttributeError")
    [] OTHER -> Get(load_checkpoint(f), "last_product_id", None)

\* a filter without the test `page == resume_page`
ResumeFilter_AnyPage(p, id, rpage, rid) == rid # None /\ id <= rid

\* line 106: the resume filter
ResumeFilter(p, id, rpage, rid) == p = rpage /\ rid # None /\ id <= rid

\* ------------------------------------------------------------------------
\* The CSV log (lines 77-79, 93, 100, 132, 149).  A row keeps the columns
\* page, product_id, old_url, new_url and status; "-" is 0 or the empty
\* string, the status keeps its tag, not the exception text.
\* ------------------------------------------------------------------------
LogRow(p, id, old, new, status) ==
  [page |-> p, product_id |-> id, old_url |-> old, new_url |-> new,
   status |-> status]

HeaderRow == LogRow(0, 0, <<>>, <<>>, "HEADER")

\* lines 128-132: one UPDATED row per position where old != new
UpdatedRows(p, id, urls, updated_urls) ==
  LET rows == [i \in 1..Len(urls) |->
                 LogRow(p, id, urls[i], updated_urls[i], "UPDATED")]
      changed(r) == r.old_url # r.new_url
  IN SelectSeq(rows, changed)

\* ------------------------------------------------------------------------
\* Per-item decisions of process_batch (lines 110-122)
\* ------------------------------------------------------------------------
\* lines 110-116: the normalised URLs of the product's image entry; the
\* entry's absence is reported apart
HasImageMeta(product) == product.value.t # "absent"
ItemUrls(product) == normalize_urls(product.value)
UpdatedUrls(product) ==
  [i \in 1..Len(ItemUrls(product)) |-> transform_image_url(ItemUrls(product)[i])]

\* a driver without the comparison of line 122
IsSkipped_NoComparison(product) ==
  \/ ~HasImageMeta(product)
  \/ ItemUrls(product) = <<>>

\* lines 112-124: the product is counted as skipped
IsSkipped(product) ==
  \/ ~HasImageMeta(product)
  \/ ItemUrls(product) = <<>>
  \/ ItemUrls(product) = UpdatedUrls(product)

\* ------------------------------------------------------------------------
\* Init: a fresh process, no checkpoint file, an untouched catalog
\* ------------------------------------------------------------------------
NoSave == [written |-> FALSE, last_page |-> 0, last_product_id |-> None]
NoRequest == [method |-> "none", target |-> 0, result |-> "none"]
NoSaving == [page |-> 0, product_id |-> None, after |-> "none"]
NoResponse == [kind |-> "none", last_page |-> 0, last_product_id |-> None]

TransformIdle == tIn = <<>> /\ tOut = <<>> /\ tStep = 0

InitDriverOn(asc, e, shift, f) ==
  /\ catalog = MkCatalog(asc, e)
  /\ meta = MkMeta(shift)
  /\ file = f
  /\ lastDurable = f
  /\ kills = 0
  /\ log = <<>>
  /\ pc = "idle"
  /\ page = 0
  /\ products = <<>>
  /\ idx = 0
  /\ checkpoint = load_checkpoint(FileAbsent)
  /\ resume_page = 0
  /\ resume_product_id = None
  /\ total_checked = 0
  /\ total_updated = 0
  /\ total_skipped = 0
  /\ saving = NoSaving
  /\ raises = 0
  /\ http = NoRequest
  /\ puts = 0
  /\ fetched = [p \in Pages |-> 0]
  /\ seen = [id \in Ids |-> 0]
  /\ filtered = {}
  /\ lastSave = NoSave
  /\ processed = {}
  /\ failed = {}

\* a first start: no checkpoint file yet
InitDriverWith(asc, e, shift) == InitDriverOn(asc, e, shift, FileAbsent)

InitDriver ==
  \E asc \in BOOLEAN, e \in 0..END_PAGE, shift \in 0..(Len(MetaKinds) - 1) :
    InitDriverWith(asc, e, shift)

Init ==
  /\ InitDriver
  /\ statusResp = NoResponse
  /\ TransformIdle

\* ------------------------------------------------------------------------
\* process_batch (lines 68-162)
\* ------------------------------------------------------------------------
\* lines 69-79: start_updater calls process_batch, which loads the
\* checkpoint, zeroes the counters and opens the log file for writing
StartBatch ==
  /\ pc = "idle"
  /\ ~StartRaises(file)
  /\ checkpoint' = load_checkpoint(file)
  /\ resume_page' = ResumePage(file)
  /\ resume_product_id' = ResumeProductId(file)
  /\ total_checked' = 0
  /\ total_updated' = 0
  /\ total_skipped' = 0
  /\ log' = <<HeaderRow>>
  /\ page' = ResumePage(file)
  /\ pc' = "fetch"
  /\ puts' = 0
  /\ fetched' = [p \in Pages |-> 0]
  /\ seen' = [id \in Ids |-> 0]
  /\ filtered' = {}
  /\ lastSave' = NoSave
  /\ UNCHANGED << catalog, meta, file, products, idx, saving, raises, http,
                  processed, failed, statusResp, kills, lastDurable,
                  transformVars >>

\* lines 69-81 on a file that makes process_batch raise before its first
\* fetch.  The lines before the raise have run: none when load_checkpoint
\* raises (line 69); line 69 when the value has no .get (line 70); lines
\* 69-79, the log file opened and its header written, when range() raises
\* (line 81)
StartBatchRaises ==
  /\ pc = "idle"
  /\ StartRaises(file)
  /\ raises < MaxRaises
  /\ pc' = "raised"
  /\ IF LoadRaises(file)
     THEN UNCHANGED << resumeVars, log, counterVars >>
     ELSE IF ~LoadsDict(file)
     THEN /\ checkpoint' = load_checkpoint(file)
          /\ UNCHANGED << resume_page, resume_product_id, log, counterVars >>
     ELSE /\ checkpoint' = load_checkpoint(file)
          /\ resume_page' = ResumePage(file)
          /\ resume_product_id' = ResumeProductId(file)
          /\ total_checked' = 0
          /\ total_updated' = 0
          /\ total_skipped' = 0
          /\ log' = <<HeaderRow>>
  /\ UNCHANGED << catalog, meta, file, page, products, idx,
                  saving, raises, http, puts, fetched, seen, filtered,
                  lastSave, processed, failed, statusResp, kills, lastDurable,
                  transformVars >>

\* one more GET of the current page
CountFetch == fetched' = [fetched EXCEPT ![page] = @ + 1]

\* a driver that fetches the failed page again
FetchError_Retries ==
  /\ pc = "fetch"
  /\ page <= END_PAGE
  /\ http' = [method |-> "GET", target |-> page, result |-> "error"]
  /\ CountFetch
  /\ log' = Append(log, LogRow(page, 0, <<>>, <<>>, "ERROR"))
  /\ UNCHANGED << catalog, meta, file, pc, page, products, idx, resumeVars,
                  counterVars, saving, raises, puts, seen, filtered, lastSave,
                  processed, failed, statusResp, kills, lastDurable,
                  transformVars >>

\* lines 84-95: the GET fails (transport error or HTTP error status)
FetchError ==
  /\ pc = "fetch"
  /\ page <= END_PAGE
  /\ http' = [method |-> "GET", target |-> page, result |-> "error"]
  /\ CountFetch
  /\ log' = Append(log, LogRow(page, 0, <<>>, <<>>, "ERROR"))
  /\ page' = page + 1
  /\ UNCHANGED << catalog, meta, file, pc, products, idx, resumeVars,
                  counterVars, saving, raises, puts, seen, filtered, lastSave,
                  processed, failed, statusResp, kills, lastDurable,
                  transformVars >>

\* line 97: the GET succeeds and response.json(), outside the try, raises
\* on a body that is no JSON; the exception leaves process_batch
FetchBadBody ==
  /\ pc = "fetch"
  /\ page <= END_PAGE
  /\ raises < MaxRaises
  /\ http' = [method |-> "GET", target |-> page, result |-> "badbody"]
  /\ CountFetch
  /\ pc' = "raised"
  /\ UNCHANGED << catalog, meta, file, log, page, products, idx, resumeVars,
                  counterVars, saving, raises, puts, seen, filtered, lastSave,
                  processed, failed, statusResp, kills, lastDurable,
                  transformVars >>

\* lines 97-102: the page holds no product
FetchEmpty ==
  /\ pc = "fetch"
  /\ page <= END_PAGE
  /\ catalog[page] = <<>>
  /\ http' = [method |-> "GET", target |-> page, result |-> "ok"]
  /\ CountFetch
  /\ products' = <<>>
  /\ log' = Append(log, LogRow(page, 0, <<>>, <<>>, "EMPTY PAGE"))
  /\ page' = page + 1
  /\ UNCHANGED << catalog, meta, file, pc, idx, resumeVars, counterVars,
                  saving, raises, puts, seen, filtered, lastSave, processed,
                  failed, statusResp, kills, lastDurable,
                  transformVars >>

\* lines 97-104: the page holds products; the item loop starts
FetchOk ==
  /\ pc = "fetch"
  /\ page <= END_PAGE
  /\ catalog[page] # <<>>
  /\ http' = [method |-> "GET", target |-> page, result |-> "ok"]
  /\ CountFetch
  /\ products' = [i \in 1..Len(catalog[page]) |->
                    [id |-> catalog[page][i], value |-> meta[catalog[page][i]]]]
  /\ idx' = 1
  /\ pc' = "item"
  /\ UNCHANGED << catalog, meta, file, log, page, resumeVars, counterVars,
                  saving, raises, puts, seen, filtered, lastSave, processed,
                  failed, statusResp, kills, lastDurable,
                  transformVars >>

\* the item loop is at a product
AtItem == pc = "item" /\ idx <= Len(products)

\* a driver that counts the product before the resume filter
ItemResumeSkip_CountsChecked ==
  /\ AtItem
  /\ ResumeFilter(page, products[idx].id, resume_page, resume_product_id)
  /\ idx' = idx + 1
  /\ filtered' = filtered \cup {products[idx].id}
  /\ total_checked' = total_checked + 1
  /\ UNCHANGED << catalog, meta, file, log, pc, page, products, resumeVars,
                  total_updated, total_skipped, saving, raises, http, puts,
                  fetched, seen, lastSave, processed, failed, statusResp,
                  kills, lastDurable, transformVars >>

\* lines 106-107: the resume filter skips the product
ItemResumeSkip ==
  /\ AtItem
  /\ ResumeFilter(page, products[idx].id, resume_page, resume_product_id)
  /\ idx' = idx + 1
  /\ filtered' = filtered \cup {products[idx].id}
  /\ UNCHANGED << catalog, meta, file, log, pc, page, products, resumeVars,
                  counterVars, saving, raises, http, puts, fetched, seen,
                  lastSave, processed, failed, statusResp, kills, lastDurable,
                  transformVars >>

\* the product passes the resume filter and is counted (line 109)
Examined ==
  /\ AtItem
  /\ ~ResumeFilter(page, products[idx].id, resume_page, resume_product_id)
  /\ total_checked' = total_checked + 1
  /\ seen' = [seen EXCEPT ![products[idx].id] = @ + 1]

\* a driver that saves the checkpoint after a skipped product too
ItemSkip_SavesCheckpoint ==
  /\ Examined
  /\ IsSkipped(products[idx])
  /\ total_skipped' = total_skipped + 1
  /\ saving' = [page |-> page, product_id |-> products[idx].id,
                after |-> "item"]
  /\ pc' = "save"
  /\ processed' = processed \cup {products[idx].id}
  /\ failed' = failed \ {products[idx].id}
  /\ UNCHANGED << catalog, meta, file, log, page, products, idx, resumeVars,
                  total_updated, raises, http, puts, fetched, filtered,
                  lastSave, statusResp, kills, lastDurable, transformVars >>

\* lines 110-124: no image entry, no URL, or no URL changes
ItemSkip ==
  /\ Examined
  /\ IsSkipped(products[idx])
  /\ total_skipped' = total_skipped + 1
  /\ idx' = idx + 1
  /\ processed' = processed \cup {products[idx].id}
  /\ failed' = failed \ {products[idx].id}
  /\ UNCHANGED << catalog, meta, file, log, pc, page, products, resumeVars,
                  total_updated, saving, raises, http, puts, fetched, filtered,
                  lastSave, statusResp, kills, lastDurable,
                  transformVars >>

\* lines 126-138: the product changes: it is counted, the changed URLs
\* are logged, and requests.put is entered; the call is outstanding until
\* the server answers or the timeout ends
SendUpdate ==
  /\ Examined
  /\ ~IsSkipped(products[idx])
  /\ total_updated' = total_updated + 1
  /\ log' = log \o UpdatedRows(page, products[idx].id, ItemUrls(products[idx]),
                               UpdatedUrls(products[idx]))
  /\ puts' = puts + 1
  /\ http' = [method |-> "PUT", target |-> products[idx].id,
              result |-> "pending"]
  /\ pc' = "put"
  /\ UNCHANGED << catalog, meta, file, page, products, idx, resumeVars,
                  total_skipped, saving, raises, fetched, filtered, lastSave,
                  processed, failed, statusResp, kills, lastDurable,
                  transformVars >>

\* lines 138-144: the server stores the new URLs and answers; the PUT
\* succeeds and save_checkpoint(page, id) is next
ItemUpdateOk ==
  /\ pc = "put"
  /\ http' = [http EXCEPT !.result = "ok"]
  /\ meta' = [meta EXCEPT ![products[idx].id] =
                [t |-> "list", v |-> UpdatedUrls(products[idx])]]
  /\ saving' = [page |-> page, product_id |-> products[idx].id,
                after |-> "item"]
  /\ pc' = "save"
  /\ processed' = processed \cup {products[idx].id}
  /\ failed' = failed \ {products[idx].id}
  /\ UNCHANGED << catalog, file, log, page, products, idx, resumeVars,
                  counterVars, raises, puts, fetched, seen, filtered,
                  lastSave, statusResp, kills, lastDurable, transformVars >>

\* a driver that saves the checkpoint after a failed PUT too
ItemUpdateFail_SavesCheckpoint ==
  /\ pc = "put"
  /\ http' = [http EXCEPT !.result = "error"]
  /\ log' = Append(log, LogRow(page, products[idx].id, <<>>, <<>>, "FAILED"))
  /\ saving' = [page |-> page, product_id |-> products[idx].id,
                after |-> "item"]
  /\ pc' = "save"
  /\ failed' = failed \cup {products[idx].id}
  /\ UNCHANGED << catalog, meta, file, page, products, idx, resumeVars,
                  counterVars, raises, puts, fetched, seen, filtered,
                  lastSave, processed, statusResp, kills, lastDurable,
                  transformVars >>

\* lines 147-149: the PUT fails; a FAILED row, and on to the next product
ItemUpdateFail ==
  /\ pc = "put"
  /\ http' = [http EXCEPT !.result = "error"]
  /\ log' = Append(log, LogRow(page, products[idx].id, <<>>, <<>>, "FAILED"))
  /\ idx' = idx + 1
  /\ pc' = "item"
  /\ failed' = failed \cup {products[idx].id}
  /\ UNCHANGED << catalog, meta, file, page, products, resumeVars,
                  counterVars, saving, raises, puts, fetched, seen, filtered,
                  lastSave, processed, statusResp, kills, lastDurable,
                  transformVars >>

\* an element of the response that is not the product object the loop
\* expects makes the loop body raise; the exception leaves process_batch.
\* It is raised by product["id"] (line 106, evaluated only on the resume
\* page of a run that loaded an item id), or, the element counted (line
\* 109), by the reads of lines 110-111 or by normalize_urls (line 117), or,
\* the element counted as updated too (line 126), by product["name"]
\* (line 127), before any row is written
ItemRaise ==
  /\ AtItem
  /\ raises < MaxRaises
  /\ pc' = "raised"
  /\ \/ /\ page = resume_page
        /\ resume_product_id # None
        /\ UNCHANGED << counterVars, seen >>
     \/ /\ Examined
        /\ UNCHANGED << total_updated, total_skipped >>
     \/ /\ Examined
        /\ ~IsSkipped(products[idx])
        /\ total_updated' = total_updated + 1
        /\ UNCHANGED total_skipped
  /\ UNCHANGED << catalog, meta, file, log, page, products, idx, resumeVars,
                  saving, raises, http, puts, fetched, filtered, lastSave,
                  processed, failed, statusResp, kills, lastDurable,
                  transformVars >>

\* a driver that goes to the next page without the save of line 151
PageDone_SkipsSave ==
  /\ pc = "item"
  /\ idx > Len(products)
  /\ pc' = "fetch"
  /\ page' = page + 1
  /\ UNCHANGED << catalog, meta, file, log, products, idx, resumeVars,
                  counterVars, saving, raises, http, puts, fetched, seen,
                  filtered, lastSave, processed, failed, statusResp, kills,
                  lastDurable, transformVars >>

\* line 151: the item loop is over; save_checkpoint(page) is next
PageDone ==
  /\ pc = "item"
  /\ idx > Len(products)
  /\ saving' = [page |-> page, product_id |-> None, after |-> "page"]
  /\ pc' = "save"
  /\ UNCHANGED << catalog, meta, file, log, page, products, idx, resumeVars,
                  counterVars, raises, http, puts, fetched, seen, filtered,
                  lastSave, processed, failed, statusResp, kills, lastDurable,
                  transformVars >>

\* line 45: save_checkpoint opens the file for writing, which truncates it
SaveOpen ==
  /\ pc = "save"
  /\ file' = FileEmpty
  /\ pc' = "write"
  /\ UNCHANGED << catalog, meta, log, page, products, idx, resumeVars,
                  counterVars, saving, raises, http, puts, fetched, seen,
                  filtered, lastSave, processed, failed, statusResp,
                  kills, lastDurable, transformVars >>

\* what save_checkpoint(page, product_id) leaves in the file (line 46)
Saved(p, id) == FileJson(p, id)

\* line 46 and the end of the with block: the JSON is written and the file
\* closed; then the sleep, and the next product (line 146) or the next
\* page (line 152)
SaveWrite ==
  /\ pc = "write"
  /\ file' = Saved(saving.page, saving.product_id)
  /\ lastSave' = [written |-> TRUE, last_page |-> saving.page,
                  last_product_id |-> saving.product_id]
  /\ saving' = NoSaving
  /\ lastDurable' = Saved(saving.page, saving.product_id)
  /\ IF saving.after = "item"
     THEN /\ pc' = "item"
          /\ idx' = idx + 1
          /\ page' = page
     ELSE /\ pc' = "fetch"
          /\ idx' = idx
          /\ page' = page + 1
  /\ UNCHANGED << catalog, meta, log, products, resumeVars, counterVars,
                  raises, http, puts, fetched, seen, filtered, processed,
                  failed, statusResp, kills,
                  transformVars >>

\* line 81: range(resume_page, END_PAGE + 1) is exhausted; the summary is
\* printed and process_batch returns
BatchReturn ==
  /\ pc = "fetch"
  /\ page > END_PAGE
  /\ pc' = "returned"
  /\ UNCHANGED << catalog, meta, file, log, page, products, idx, resumeVars,
                  counterVars, saving, raises, http, puts, fetched, seen,
                  filtered, lastSave, processed, failed, statusResp,
                  kills, lastDurable, transformVars >>

\* ------------------------------------------------------------------------
\* start_updater (lines 179-188)
\* ------------------------------------------------------------------------
\* lines 185-188: the exception is caught; after the sleep the loop calls
\* process_batch again
Backoff_GivesUp ==
  /\ pc = "raised"
  /\ raises' = raises + 1
  /\ pc' = "exited"
  /\ UNCHANGED << catalog, meta, file, log, page, products, idx, resumeVars,
                  counterVars, saving, http, puts, fetched, seen, filtered,
                  lastSave, processed, failed, statusResp, kills, lastDurable,
                  transformVars >>

Backoff ==
  /\ pc = "raised"
  /\ raises' = raises + 1
  /\ pc' = "idle"
  /\ UNCHANGED << catalog, meta, file, log, page, products, idx, resumeVars,
                  counterVars, saving, http, puts, fetched, seen, filtered,
                  lastSave, processed, failed, statusResp, kills, lastDurable,
                  transformVars >>

\* lines 182-184: process_batch returned; break
UpdaterExit ==
  /\ pc = "returned"
  /\ pc' = "exited"
  /\ UNCHANGED << catalog, meta, file, log, page, products, idx, resumeVars,
                  counterVars, saving, raises, http, puts, fetched, seen,
                  filtered, lastSave, processed, failed, statusResp,
                  kills, lastDurable, transformVars >>

Next ==
  \/ StartBatch
  \/ FetchError
  \/ FetchBadBody
  \/ FetchEmpty
  \/ FetchOk
  \/ ItemResumeSkip
  \/ ItemSkip
  \/ SendUpdate
  \/ ItemUpdateOk
  \/ ItemUpdateFail
  \/ ItemRaise
  \/ PageDone
  \/ SaveOpen
  \/ SaveWrite
  \/ BatchReturn
  \/ Backoff
  \/ UpdaterExit

Spec == Init /\ [][Next]_vars

\* lines 179-188 with progress: every network call returns (lines 84, 139
\* have a timeout), the sleep of line 188 ends and the thread keeps running,
\* so a step that stays possible is eventually taken
SpecLive == Spec /\ WF_vars(Next)

\* ------------------------------------------------------------------------
\* The /status responder (lines 171-177), on the Flask thread, beside the
\* updater thread
\* ------------------------------------------------------------------------
\* what the handler answers when it finds the file in state f: the "no
\* checkpoint yet" object when the file does not exist, the parsed object
\* when json.load succeeds, and an error response when json.load raises
\* (the handler catches nothing)
StatusAnswer(f) ==
  CASE f.kind = "absent" ->
         [kind |-> "no checkpoint yet", last_page |-> 0,
          last_product_id |-> None]
    [] f.kind = "json" ->
         [kind |-> "checkpoint", last_page |-> f.last_page,
          last_product_id |-> f.last_product_id]
    [] f.kind \in {"badobject", "nullobject", "otherobject", "nonobject"} ->
         [kind |-> "parsed", body |-> load_checkpoint(f)]
    [] OTHER ->
         [kind |-> "error", last_page |-> 0, last_product_id |-> None]

Status ==
  /\ statusResp' = StatusAnswer(file)
  /\ UNCHANGED << driverVars, transformVars >>

NextStatus ==
  \/ Next
  \/ Status

SpecStatus == Init /\ [][NextStatus]_vars

\* ------------------------------------------------------------------------
\* The transformer applied to URLs, and applied again to its own output
\* ------------------------------------------------------------------------
Tokens ==
  { HOST, <<"/", "i", "m", "a", "g", "e", "s">>, <<"/">>, OLD_EXTENSION,
    UPPER_EXTENSION, <<".", "J", "p", "g">>, <<"a">> }

RECURSIVE UrlsOfLen(_)
UrlsOfLen(n) ==
  IF n = 0 THEN {<<>>}
  ELSE {u \o t : u \in UrlsOfLen(n - 1), t \in Tokens}

Urls == UNION {UrlsOfLen(n) : n \in 0..MaxTokens}

InitTransform ==
  /\ InitDriverWith(TRUE, 0, 0)
  /\ statusResp = NoResponse
  /\ tIn \in Urls
  /\ tOut = <<>>
  /\ tStep = 0

\* transform_image_url(url)
ApplyTransform ==
  /\ tStep = 0
  /\ tOut' = transform_image_url(tIn)
  /\ tStep' = 1
  /\ UNCHANGED << tIn, driverVars, statusResp >>

\* transform_image_url applied to the URL it returned
ReapplyTransform ==
  /\ tStep = 1
  /\ tIn' = tOut
  /\ tOut' = transform_image_url(tOut)
  /\ tStep' = 2
  /\ UNCHANGED << driverVars, statusResp >>

NextTransform ==
  \/ ApplyTransform
  \/ ReapplyTransform

SpecTransform == InitTransform /\ [][NextTransform]_vars

\* ------------------------------------------------------------------------
\* Process termination (lines 190-194): the process is stopped at any point
\* of the run and started anew.  What was written to checkpoint.json stays;
\* the new process has fresh variables and, LOG_FILE carrying the start
\* time (line 32), a log file of its own.
\* ------------------------------------------------------------------------
Kill ==
  /\ kills < MaxKills
  /\ kills' = kills + 1
  /\ pc' = "idle"
  /\ raises' = 0
  /\ saving' = NoSaving
  /\ log' = <<>>
  /\ UNCHANGED << catalog, meta, file, page, products, idx, resumeVars,
                  counterVars, http, puts, fetched, seen, filtered, lastSave,
                  processed, failed, statusResp, lastDurable, transformVars >>

NextKill ==
  \/ Next
  \/ Kill

SpecKill == Init /\ [][NextKill]_vars

\* ------------------------------------------------------------------------
\* The driver started on a checkpoint file left in any condition
\* ------------------------------------------------------------------------
StartFiles ==
  { FileAbsent, FileEmpty, FileNotJson, FileNotUtf8, FileBadObject,
    FileNullObject, FileOtherObject }
    \cup {FileNonObject(text) : text \in NonObjectTexts}

InitCorrupt ==
  /\ \E asc \in BOOLEAN, e \in 0..END_PAGE, shift \in 0..(Len(MetaKinds) - 1),
        f \in StartFiles :
       InitDriverOn(asc, e, shift, f)
  /\ statusResp = NoResponse
  /\ TransformIdle

NextCorrupt ==
  \/ Next
  \/ StartBatchRaises

SpecCorrupt == InitCorrupt /\ [][NextCorrupt]_vars

\* ------------------------------------------------------------------------
\* Properties
\* ------------------------------------------------------------------------
\* the items of page p
ItemsOn(p) == {catalog[p][i] : i \in 1..Len(catalog[p])}

\* the API returns the items of every page in ascending id order
AscendingIds ==
  \A p \in Pages : \A i \in 1..Len(catalog[p]) : \A j \in 1..Len(catalog[p]) :
    i < j => catalog[p][i] < catalog[p][j]

\* the checkpoint file f, read as a cursor, covers item id of page p
Covers(f, p, id) ==
  /\ f.kind = "json"
  /\ \/ p < f.last_page
     \/ p = f.last_page /\ f.last_product_id # None /\ id <= f.last_product_id

\* a run of process_batch started on file f would handle item id of page p:
\* the start does not raise (lines 69-81), the page is in
\* range(resume_page, END_PAGE + 1) and the resume filter of line 106 lets
\* the item pass
WouldProcess(f, p, id) ==
  /\ ~StartRaises(f)
  /\ p >= ResumePage(f)
  /\ ~ResumeFilter(p, id, ResumePage(f), ResumeProductId(f))

\* (page, item id) pairs in lexicographic order, no item id (None) first
LexLeq(p1, x1, p2, x2) == p1 < p2 \/ (p1 = p2 /\ x1 <= x2)

\* the URLs of the product need no change: no image entry, no URL after
\* normalisation, or every URL is a fixed point of the transformer
NeedsNoChange(product) ==
  \/ product.value.t = "absent"
  \/ normalize_urls(product.value) = <<>>
  \/ \A i \in 1..Len(normalize_urls(product.value)) :
       transform_image_url(normalize_urls(product.value)[i])
         = normalize_urls(product.value)[i]

\* the FAILED rows of item id in a log
FailedRows(rows, id) ==
  LET isFailed(r) == r.status = "FAILED" /\ r.product_id = id
  IN Len(SelectSeq(rows, isFailed))

\* C1: whenever the checkpoint file holds {last_page: P, last_item_id: X},
\* every item on a page before P, and every item on page P with id <= X, has
\* been processed (skipped as needing no change, or updated with success).
\* Stated for the catalogs whose pages come in ascending id order.
C1_CheckpointMeaning ==
  AscendingIds =>
    \A p \in Pages : \A id \in ItemsOn(p) :
      Covers(file, p, id) => id \in processed

\* C2: a run of process_batch that started from a checkpoint {P, X} and
\* returned has skipped every item of page P with id <= X and has processed
\* every other item of the pages P..END_PAGE exactly once.
C2_ResumeCorrectness ==
  (pc = "returned" /\ "last_page" \in DOMAIN checkpoint) =>
    \A p \in Pages : \A id \in ItemsOn(p) :
      p >= checkpoint["last_page"] =>
        IF /\ p = checkpoint["last_page"]
           /\ checkpoint["last_product_id"] # None
           /\ id <= checkpoint["last_product_id"]
        THEN seen[id] = 0
        ELSE seen[id] = 1

\* C3: an item whose update call failed is never covered by the stored
\* checkpoint: a restart of the driver from the file, at whatever point,
\* handles the item again.  Stated for the catalogs whose pages come in
\* ascending id order.
C3_FailedItemRetried ==
  AscendingIds =>
    \A p \in Pages : \A id \in ItemsOn(p) :
      id \in failed => WouldProcess(file, p, id)

\* C4: a failed update call appends exactly one FAILED row for the item,
\* leaves the checkpoint file alone (no save_checkpoint call is begun), does
\* not leave process_batch, and the loop goes on to the next item of the
\* same page.
C4_UpdateFailureHandled ==
  [][(/\ pc = "put"
      /\ http'.method = "PUT"
      /\ http'.result = "error")
     => (/\ FailedRows(log', products[idx].id)
              = FailedRows(log, products[idx].id) + 1
         /\ log' = Append(log, LogRow(page, products[idx].id, <<>>, <<>>,
                                      "FAILED"))
         /\ file' = file
         /\ saving' = saving
         /\ lastSave' = lastSave
         /\ pc' = "item"
         /\ page' = page
         /\ products' = products
         /\ idx' = idx + 1)]_vars

C4_Witness ==
  /\ pc = "item"
  /\ idx = 2
  /\ idx <= Len(products)
  /\ http = [method |-> "PUT", target |-> products[1].id, result |-> "error"]
  /\ log[Len(log)] = LogRow(page, products[1].id, <<>>, <<>>, "FAILED")
  /\ file = FileAbsent

\* C5: within one run of process_batch, every checkpoint save_checkpoint
\* writes is >= the one it wrote before, in the lexicographic order of
\* (page, item id), the page-completion save (page, none) included.
\* Stated for the catalogs whose pages come in ascending id order.
C5_CheckpointMonotone ==
  [][(AscendingIds /\ lastSave.written /\ lastSave'.written)
     => LexLeq(lastSave.last_page, lastSave.last_product_id,
               lastSave'.last_page, lastSave'.last_product_id)]_vars

\* C6: transform_image_url(transform_image_url(u)) = transform_image_url(u)
\* for every URL u.
C6_TransformIdempotent == tStep = 2 => tOut = tIn

\* C7: an item that passes the resume filter and whose URLs need no change
\* (or that has no image entry, or no URL) causes no update call, no log
\* row and no checkpoint write; the checked and skipped counters go up by
\* one and the updated counter stays.
C7_NoOpSkip ==
  [][(/\ pc = "item"
      /\ idx <= Len(products)
      /\ ~(/\ page = resume_page
           /\ resume_product_id # None
           /\ products[idx].id <= resume_product_id)
      /\ NeedsNoChange(products[idx])
      /\ pc' # "raised")
     => (/\ puts' = puts
         /\ http' = http
         /\ meta' = meta
         /\ log' = log
         /\ file' = file
         /\ saving' = saving
         /\ pc' = "item"
         /\ idx' = idx + 1
         /\ total_checked' = total_checked + 1
         /\ total_skipped' = total_skipped + 1
         /\ total_updated' = total_updated)]_vars

C7_Witness ==
  /\ pc = "item"
  /\ idx = 2
  /\ NeedsNoChange(products[1])
  /\ products[1].value.t = "list"
  /\ seen[products[1].id] = 1
  /\ total_checked = 1
  /\ total_skipped = 1
  /\ puts = 0
  /\ log = <<HeaderRow>>
  /\ file = FileAbsent

\* C8: a failed fetch of page p appends exactly one ERROR row for p, handles
\* no item of p, writes no checkpoint, does not leave process_batch, and the
\* loop goes on to page p + 1; no page is fetched twice in a run.
C8_FetchFailureHandled ==
  /\ [](\A p \in Pages : fetched[p] <= 1)
  /\ [][(/\ pc = "fetch"
         /\ page <= END_PAGE
         /\ fetched' # fetched
         /\ http'.result = "error")
        => (/\ log' = Append(log, LogRow(page, 0, <<>>, <<>>, "ERROR"))
            /\ page' = page + 1
            /\ pc' = "fetch"
            /\ file' = file
            /\ saving' = saving
            /\ meta' = meta
            /\ puts' = puts
            /\ seen' = seen
            /\ filtered' = filtered
            /\ total_checked' = total_checked
            /\ total_updated' = total_updated
            /\ total_skipped' = total_skipped)]_vars

C8_Witness ==
  /\ pc = "fetch"
  /\ page = START_PAGE + 1
  /\ http = [method |-> "GET", target |-> START_PAGE, result |-> "error"]
  /\ log = <<HeaderRow, LogRow(START_PAGE, 0, <<>>, <<>>, "ERROR")>>
  /\ seen = [id \in Ids |-> 0]
  /\ file = FileAbsent

\* C9: start_updater exits only after process_batch has returned; after an
\* exception it calls process_batch again, and that call, when a checkpoint
\* has been saved, starts at the stored last_page.
C9_WrapperRestart ==
  [][/\ (pc' = "exited" => pc \in {"returned", "exited"})
     /\ (pc = "raised" => pc' \in {"raised", "idle"})
     /\ (pc = "idle" /\ pc' # "idle" /\ raises > 0 /\ file.kind = "json")
          => (/\ pc' = "fetch"
              /\ page' = file.last_page
              /\ resume_page' = file.last_page
              /\ file' = file)]_vars

C9_Witness ==
  /\ pc = "fetch"
  /\ raises > 0
  /\ file.kind = "json"
  /\ file.last_page > START_PAGE
  /\ page = file.last_page
  /\ fetched = [p \in Pages |-> 0]

\* C10: whatever the interleaving of save_checkpoint with the responder's
\* read, /status answers the checkpoint saved before, the checkpoint being
\* saved, or "no checkpoint yet"; it never fails.
C10_StatusNeverFails ==
  statusResp.kind \in {"none", "checkpoint", "no checkpoint yet"}

\* C11: whatever the checkpoint file holds that is no checkpoint object
\* (missing, empty, truncated, no JSON, JSON of another shape), the start
\* of process_batch takes it for "no checkpoint": the run begins at the
\* configured start page with no last item id, and does not raise.
C11_CorruptCheckpointTolerated ==
  [][(pc = "idle" /\ pc' # "idle" /\ file.kind # "json")
     => (/\ pc' = "fetch"
         /\ page' = START_PAGE
         /\ resume_page' = START_PAGE
         /\ resume_product_id' = None)]_vars

\* C12: when the process is terminated, at any point of a run, the file it
\* leaves loads as the last checkpoint whose save completed or as the
\* checkpoint being saved: the resume point does not fall back.
C12_CrashSafeResume ==
  [][(kills' = kills + 1)
     => (\/ /\ ResumePage(file') = ResumePage(lastDurable)
            /\ ResumeProductId(file') = ResumeProductId(lastDurable)
         \/ /\ pc = "write"
            /\ ResumePage(file') = saving.page
            /\ ResumeProductId(file') = saving.product_id)]_vars

\* C13: the log file only grows: every row written stays in the file for
\* the rest of the process lifetime, also when start_updater calls
\* process_batch again after an exception.
C13_LogAppendOnly ==
  [][/\ Len(log') >= Len(log)
     /\ SubSeq(log', 1, Len(log)) = log]_vars

\* C14: a URL that is empty or does not contain "static.recar.lt" is
\* returned unchanged by transform_image_url, also when it contains the
\* old path segment or the old extension.
C14_DomainGating ==
  (tStep = 1 /\ (tIn = <<>> \/ ~Contains(tIn, HOST))) => tOut = tIn

C14_Witness ==
  /\ tStep = 1
  /\ ~Contains(tIn, HOST)
  /\ Contains(tIn, OLD_IMAGE_PATH)
  /\ Contains(tIn, OLD_EXTENSION)
  /\ tOut = tIn

\* C15: once every item of a fetched page p has been handled, the
\* checkpoint file is overwritten with (p, no item id) before page p + 1 is
\* fetched, also when an update of page p failed; a run started from that
\* checkpoint filters nothing and handles every item of page p again, the
\* item whose update failed included.
C15_PageCompletion ==
  [][/\ (pc = "item" /\ idx > Len(products))
          => (/\ pc' = "save"
              /\ saving' = [page |-> page, product_id |-> None,
                            after |-> "page"]
              /\ fetched' = fetched)
     /\ (pc = "save" /\ saving.after = "page")
          => (pc' = "write" /\ fetched' = fetched)
     /\ (pc = "write" /\ saving.after = "page")
          => (/\ file' = FileJson(page, None)
              /\ pc' = "fetch"
              /\ page' = page + 1
              /\ fetched' = fetched)
     /\ (/\ pc = "item"
         /\ idx <= Len(products)
         /\ "last_page" \in DOMAIN checkpoint
         /\ checkpoint["last_product_id"] = None
         /\ pc' # "raised")
          => (/\ seen' = [seen EXCEPT ![products[idx].id] = @ + 1]
              /\ filtered' = filtered
              /\ filtered = {})]_vars

C15_Witness ==
  /\ raises > 0
  /\ file = FileJson(page, None)
  /\ checkpoint = load_checkpoint(file)
  /\ pc = "item"
  /\ idx <= Len(products)
  /\ products[idx].id \in failed
  /\ seen[products[idx].id] = 0

\* C16: within a run an item is skipped by the resume filter exactly when
\* its page is the resume page, the loaded checkpoint has a last item id,
\* and the item's id is <= that id; on a later page no item is skipped by
\* the filter, whatever its id.
C16_ResumeFilterScope ==
  /\ [](pc \in {"fetch", "item", "put", "save", "write"}
          => /\ resume_page = Get(checkpoint, "last_page", START_PAGE)
             /\ resume_product_id = Get(checkpoint, "last_product_id", None))
  /\ [][(pc = "item" /\ idx <= Len(products) /\ pc' # "raised")
        => ((/\ total_checked' = total_checked
             /\ seen' = seen
             /\ idx' = idx + 1
             /\ pc' = "item")
            <=> (/\ page = resume_page
                 /\ resume_product_id # None
                 /\ products[idx].id <= resume_product_id))]_vars

C16_Witness ==
  /\ pc = "item"
  /\ page > resume_page
  /\ resume_product_id # None
  /\ filtered # {}
  /\ idx = 2
  /\ products[1].id <= resume_product_id
  /\ seen[products[1].id] = 1
  /\ total_checked = 1

\* C17: a checkpoint with an item id (p, x) is written only directly after
\* the update call for x on page p succeeded and before the next item is
\* examined; so a stored item id is that of an item of the stored page whose
\* update call succeeded.
C17_CheckpointFollowsSuccess ==
  /\ []((file.kind = "json" /\ file.last_product_id # None)
          => /\ file.last_page \in Pages
             /\ file.last_product_id \in ItemsOn(file.last_page)
             /\ file.last_product_id \in processed
             /\ meta[file.last_product_id].t = "list")
  /\ [][/\ (file' # file /\ file'.kind = "json"
              /\ file'.last_product_id # None)
             => (/\ pc = "write"
                 /\ http = [method |-> "PUT",
                            target |-> file'.last_product_id,
                            result |-> "ok"]
                 /\ file'.last_page = page
                 /\ products[idx].id = file'.last_product_id
                 /\ seen' = seen
                 /\ idx' = idx + 1
                 /\ pc' = "item")
        /\ (pc = "put" /\ http'.result = "ok")
             => (/\ pc' = "save"
                 /\ saving' = [page |-> page, product_id |-> products[idx].id,
                               after |-> "item"])
        /\ (pc = "save" /\ saving.after = "item")
             => (pc' = "write" /\ seen' = seen /\ http' = http)]_vars

C17_Witness ==
  /\ pc = "item"
  /\ idx = 2
  /\ file = FileJson(page, products[1].id)
  /\ http = [method |-> "PUT", target |-> products[1].id, result |-> "ok"]
  /\ seen[products[1].id] = 1
  /\ total_checked = 1

\* a character in lower case (the capitals of the modelled alphabet)
Lower(c) ==
  CASE c = "J" -> "j"
    [] c = "P" -> "p"
    [] c = "G" -> "g"
    [] OTHER -> c

LowerStr(str) == [i \in 1..Len(str) |-> Lower(str[i])]

\* C18: for a URL on the recognised host, transform_image_url replaces every
\* "/images/" by "/pictures/" and every ".jpg", in any letter case, by
\* ".webp": none of them is left in the result.
C18_ExtensionAnyCase ==
  (tStep = 1 /\ Contains(tIn, HOST))
    => /\ ~Contains(LowerStr(tOut), OLD_EXTENSION)
       /\ ~Contains(tOut, OLD_IMAGE_PATH)

\* C19: within a run, after each item, checked = updated + skipped (the
\* counters of a call that an exception has left are not read again); an
\* item skipped by the resume filter changes none of the three counters,
\* and an item whose update call fails is counted as updated: it was
\* counted before the call, and the failure takes nothing back.
C19_CounterInvariant ==
  /\ [](pc \in {"fetch", "item", "put", "save", "write", "returned", "exited"}
          => total_checked = total_updated + total_skipped)
  /\ [][/\ (/\ pc = "item"
            /\ idx <= Len(products)
            /\ page = resume_page
            /\ resume_product_id # None
            /\ products[idx].id <= resume_product_id
            /\ pc' # "raised")
             => (/\ total_checked' = total_checked
                 /\ total_updated' = total_updated
                 /\ total_skipped' = total_skipped
                 /\ idx' = idx + 1)
        /\ (pc = "item" /\ pc' = "put")
             => (/\ total_checked' = total_checked + 1
                 /\ total_updated' = total_updated + 1
                 /\ total_skipped' = total_skipped)
        /\ (pc = "put" /\ http'.result = "error")
             => (/\ total_checked' = total_checked
                 /\ total_updated' = total_updated
                 /\ total_skipped' = total_skipped
                 /\ pc' = "item"
                 /\ idx' = idx + 1)]_vars

C19_Witness ==
  /\ pc = "item"
  /\ filtered # {}
  /\ http.method = "PUT"
  /\ http.result = "error"
  /\ http.target \in failed
  /\ seen[http.target] = 1
  /\ total_checked = 1
  /\ total_updated = 1
  /\ total_skipped = 0

\* C20: when every network call returns and process_batch raises only
\* finitely often, start_updater eventually leaves its loop; at that point
\* the last process_batch call has fetched every page from its resume page
\* to END_PAGE and none before it; no call fetches a page more than once.
C20_SupervisorTerminates ==
  /\ <>(pc = "exited")
  /\ [](pc = "exited"
          => \A p \in Pages :
               fetched[p] = IF p >= resume_page THEN 1 ELSE 0)
  /\ [](\A p \in Pages : fetched[p] \in {0, 1})
  /\ [][pc' = "exited" => pc = "returned"]_vars

C20_Witness ==
  /\ pc = "exited"
  /\ raises > 0
  /\ resume_page > START_PAGE
  /\ fetched[END_PAGE] = 1
  /\ fetched[START_PAGE] = 0

====
